---- MODULE Spec2Model ----
(***************************************************************************)
(* Model of src/controllers/oauth2.rs: the OAuth2 authorization-code flow  *)
(* handlers google_authorization_url / get_authorization_url and           *)
(* google_callback / callback.  Every request is an async task; an action  *)
(* is the code that runs between two suspension points (.await) of the     *)
(* handler.  The provider client is reached through a tokio MutexGuard     *)
(* that lives from the store lookup to the return of the outer handler.    *)
(***************************************************************************)
EXTENDS Integers, FiniteSets, Sequences, TLC

\* ---------------------------------------------------------------- bounds
NumReq == 3
NumSessions == 2
MaxTokens == 2
MaxCodes == 1

\* ------------------------------------------------------- program constants
BAD_REQUEST == 400
INTERNAL_SERVER_ERROR == 500
SEE_OTHER == 303
OK == 200

Req == 1..NumReq
Sessions == 1..NumSessions
Tokens == 1..MaxTokens
Codes == 1..MaxCodes

NoReq == 0
NoToken == 0
NoCode == 0
NoUrl == "none"
Provider == "google"
DefaultProtectedUrl == "/oauth2/protected"
CustomProtectedUrl == "/custom"

VARIABLES
    registry,        \* provider names configured in the OAuth2ClientStore
    protected_url,   \* cookie config of the client: Option<String>
    lockHolder,      \* request owning the client's MutexGuard, or NoReq
    CSRF_TOKEN,      \* session store: session -> value under key "CSRF_TOKEN"
    lastIssued,      \* history: session -> state value last handed out in an authorization URL
    nextToken,       \* number of CSRF tokens the client has generated
    usedCodes,       \* provider: authorization codes already exchanged
    users,           \* persistence: user records (keyed by provider identity)
    oauth2_sessions, \* persistence: session records (keyed by user and token)
    okExchanges,     \* history: code -> number of callbacks whose exchange of it returned Ok
    failedSince,     \* history: session -> a callback on it failed after its CSRF check
                     \*          since the last initiation on it
    req              \* per request: position and locals of the handler

vars == <<registry, protected_url, lockHolder, CSRF_TOKEN, lastIssued, nextToken,
          usedCodes, users, oauth2_sessions, okExchanges, failedSince, req>>

\* -------------------------------------------------------------- responses
NoResponse ==
    [kind |-> "none", status |-> 0, reason |-> "", cookie |-> FALSE,
     location |-> NoUrl, url_state |-> NoToken]

\* loco_rs Error::BadRequest(msg)
Error_BadRequest(msg) ==
    [kind |-> "error", status |-> BAD_REQUEST, reason |-> msg, cookie |-> FALSE,
     location |-> NoUrl, url_state |-> NoToken]

\* loco_rs Error::InternalServerError
Error_InternalServerError ==
    [kind |-> "error", status |-> INTERNAL_SERVER_ERROR, reason |-> "", cookie |-> FALSE,
     location |-> NoUrl, url_state |-> NoToken]

\* Ok(auth_url): the authorization URL carries the generated state
Ok_AuthUrl(token) ==
    [kind |-> "url", status |-> OK, reason |-> "", cookie |-> FALSE,
     location |-> NoUrl, url_state |-> token]

\* (jar, Redirect::to(&protect_url)).into_response()
Ok_Redirect(url) ==
    [kind |-> "redirect", status |-> SEE_OTHER, reason |-> "", cookie |-> TRUE,
     location |-> url, url_state |-> NoToken]

\* .unwrap() on an Err: the handler task unwinds, no response value is returned
Panicked ==
    [kind |-> "panic", status |-> 0, reason |-> "", cookie |-> FALSE,
     location |-> NoUrl, url_state |-> NoToken]

\* the handler future is dropped at an .await: nothing is returned
Cancelled ==
    [kind |-> "cancelled", status |-> 0, reason |-> "", cookie |-> FALSE,
     location |-> NoUrl, url_state |-> NoToken]

\* ------------------------------------------------------------ request slot
IdleReq ==
    [pc |-> "idle", kind |-> "none", session |-> 1, code |-> NoCode, state |-> NoToken,
     csrf_token |-> NoToken, token |-> NoCode, user |-> NoCode,
     csrf |-> "pending", failedAt |-> "none", did |-> {}, exchanges |-> 0,
     resp |-> NoResponse]

Init ==
    /\ registry \in {{}, {Provider}}
    /\ protected_url \in {NoUrl, CustomProtectedUrl}
    /\ lockHolder = NoReq
    /\ CSRF_TOKEN = [s \in Sessions |-> NoToken]
    /\ lastIssued = [s \in Sessions |-> NoToken]
    /\ nextToken = 0
    /\ usedCodes = {}
    /\ users = {}
    /\ oauth2_sessions = {}
    /\ okExchanges = [c \in Codes |-> 0]
    /\ failedSince = [s \in Sessions |-> FALSE]
    /\ req = [r \in Req |-> IdleReq]

\* History of the outcomes per session: a callback that passed the CSRF check
\* and then returns an error or unwinds marks its session, an authorize-
\* initiation that returns the url clears the mark.
Outcome(f, r, response) ==
    IF /\ req[r].kind = "callback" /\ req[r].csrf = "passed"
       /\ response.kind \in {"error", "panic"}
    THEN [f EXCEPT ![req[r].session] = TRUE]
    ELSE IF req[r].kind = "authorize" /\ response.kind = "url"
    THEN [f EXCEPT ![req[r].session] = FALSE]
    ELSE f

\* The handler of request r returns (or unwinds): the response is recorded and
\* every local is dropped, the MutexGuard among them.
Return(r, response, failed, what) ==
    /\ req' = [req EXCEPT ![r] = [IdleReq EXCEPT !.pc = "done", !.kind = req[r].kind,
                                                 !.csrf = req[r].csrf, !.resp = response,
                                                 !.failedAt = failed,
                                                 !.exchanges = req[r].exchanges,
                                                 !.did = req[r].did \cup what]]
    /\ lockHolder' = IF lockHolder = r THEN NoReq ELSE lockHolder
    /\ failedSince' = Outcome(failedSince, r, response)

\* The handler of request r returns an error of the CSRF check.
ReturnCsrf(r, response, verdict, what) ==
    /\ req' = [req EXCEPT ![r] = [IdleReq EXCEPT !.pc = "done", !.kind = req[r].kind,
                                                 !.csrf = verdict, !.resp = response,
                                                 !.failedAt = "csrf",
                                                 !.did = req[r].did \cup what]]
    /\ lockHolder' = IF lockHolder = r THEN NoReq ELSE lockHolder
    /\ failedSince' = Outcome(failedSince, r, response)

\* Requests arrive in the order of their ids.
CanStart(r) ==
    /\ req[r].pc = "idle"
    /\ IF r = 1 THEN TRUE ELSE req[r - 1].pc # "idle"

InFlightAuth == {q \in Req : req[q].kind = "authorize" /\ req[q].pc # "done"}

\* A request for the authorize-initiation route arrives.
AuthStart(r) ==
    /\ CanStart(r)
    /\ nextToken + Cardinality(InFlightAuth) < MaxTokens
    /\ req' = [req EXCEPT ![r].pc = "auth_get_client", ![r].kind = "authorize"]
    /\ UNCHANGED <<registry, protected_url, okExchanges, failedSince,
                   lockHolder, CSRF_TOKEN, lastIssued,
                   nextToken, usedCodes, users, oauth2_sessions>>

\* A request for the callback route arrives.
CallbackStart(r) ==
    /\ CanStart(r)
    /\ req' = [req EXCEPT ![r].pc = "cb_get_client", ![r].kind = "callback"]
    /\ UNCHANGED <<registry, protected_url, okExchanges, failedSince,
                   lockHolder, CSRF_TOKEN, lastIssued,
                   nextToken, usedCodes, users, oauth2_sessions>>

\* OAuth2ClientStore::get_authorization_code_client(name): Ok(guard) iff the
\* provider is configured, otherwise Err (unknown provider).
get_authorization_code_client(name) == name \in registry

\* The state comparison of AuthorizationCodeGrantTrait::verify_code_from_callback
\* (code, state, csrf_token): the exchange is attempted only when it holds.
verify_state(state, csrf_token) == state = csrf_token

\* Results of the awaited exchange + profile fetch inside verify_code_from_callback.
ExchangeResults == {"Ok", "InvalidGrant", "Network", "ProfileFetch"}

\* The provider invalidates a code on its first successful exchange.
ProviderAccepts(code) == code \notin usedCodes

\* The provider identity the profile of an exchanged code carries.
Identity(code) == code

\* ------------------------------------------------- google_authorization_url
\* lines 128-138: the handler runs with the session s of the visitor and
\* obtains the client; Err is mapped to InternalServerError.
google_authorization_url(r, s) ==
    /\ req[r].pc = "auth_get_client"
    /\ \/ /\ ~get_authorization_code_client(Provider)
          /\ Return(r, Error_InternalServerError, "registry", {})
       \/ /\ get_authorization_code_client(Provider)
          /\ lockHolder = NoReq
          /\ lockHolder' = r
          /\ UNCHANGED failedSince
          /\ req' = [req EXCEPT ![r].pc = "auth_url", ![r].session = s]
    /\ UNCHANGED <<registry, protected_url, okExchanges, CSRF_TOKEN,
                   lastIssued, nextToken,
                   usedCodes, users, oauth2_sessions>>

\* get_authorization_url that hands out the state already bound to the session
get_authorization_url_Reuses(r) ==
    /\ req[r].pc = "auth_url"
    /\ LET s == req[r].session
           csrf_token == IF CSRF_TOKEN[s] = NoToken THEN nextToken + 1 ELSE CSRF_TOKEN[s]
       IN /\ nextToken' = IF CSRF_TOKEN[s] = NoToken THEN csrf_token ELSE nextToken
          /\ CSRF_TOKEN' = [CSRF_TOKEN EXCEPT ![s] = csrf_token]
          /\ lastIssued' = [lastIssued EXCEPT ![s] = csrf_token]
          /\ Return(r, Ok_AuthUrl(csrf_token), "none", {"csrf_write"})
    /\ UNCHANGED <<registry, protected_url, okExchanges, usedCodes, users, oauth2_sessions>>

\* get_authorization_url that does not store the token in the session
get_authorization_url_NoSet(r) ==
    /\ req[r].pc = "auth_url"
    /\ LET csrf_token == nextToken + 1
           s == req[r].session
       IN /\ nextToken' = csrf_token
          /\ UNCHANGED CSRF_TOKEN
          /\ lastIssued' = [lastIssued EXCEPT ![s] = csrf_token]
          /\ Return(r, Ok_AuthUrl(csrf_token), "none", {"csrf_write"})
    /\ UNCHANGED <<registry, protected_url, okExchanges, usedCodes, users, oauth2_sessions>>

\* get_authorization_url that keeps a token already bound to the session
get_authorization_url_KeepsOld(r) ==
    /\ req[r].pc = "auth_url"
    /\ LET csrf_token == nextToken + 1
           s == req[r].session
       IN /\ nextToken' = csrf_token
          /\ CSRF_TOKEN' = IF CSRF_TOKEN[s] = NoToken
                           THEN [CSRF_TOKEN EXCEPT ![s] = csrf_token]
                           ELSE CSRF_TOKEN
          /\ lastIssued' = [lastIssued EXCEPT ![s] = csrf_token]
          /\ Return(r, Ok_AuthUrl(csrf_token), "none", {"csrf_write"})
    /\ UNCHANGED <<registry, protected_url, okExchanges, usedCodes, users, oauth2_sessions>>

\* lines 33-40 and 139-140: generate (url, csrf_token), store the token in the
\* session under "CSRF_TOKEN", return the url.
get_authorization_url(r) ==
    /\ req[r].pc = "auth_url"
    /\ LET csrf_token == nextToken + 1
           s == req[r].session
       IN /\ nextToken' = csrf_token
          /\ CSRF_TOKEN' = [CSRF_TOKEN EXCEPT ![s] = csrf_token]
          /\ lastIssued' = [lastIssued EXCEPT ![s] = csrf_token]
          /\ Return(r, Ok_AuthUrl(csrf_token), "none", {"csrf_write"})
    /\ UNCHANGED <<registry, protected_url, okExchanges, usedCodes, users, oauth2_sessions>>

\* ---------------------------------------------------------- google_callback
\* google_callback that takes the client without waiting for its lock
google_callback_NoWait(r, s, c, st) ==
    /\ req[r].pc = "cb_get_client"
    /\ \/ /\ ~get_authorization_code_client(Provider)
          /\ Return(r, Error_InternalServerError, "registry", {})
       \/ /\ get_authorization_code_client(Provider)
          /\ lockHolder' = r
          /\ UNCHANGED failedSince
          /\ req' = [req EXCEPT ![r].pc = "cb_csrf", ![r].session = s,
                                   ![r].code = c, ![r].state = st]
    /\ UNCHANGED <<registry, protected_url, okExchanges, CSRF_TOKEN,
                   lastIssued, nextToken,
                   usedCodes, users, oauth2_sessions>>

\* google_callback that goes on into callback when the client lookup failed
google_callback_IgnoresErr(r, s, c, st) ==
    /\ req[r].pc = "cb_get_client"
    /\ \/ /\ ~get_authorization_code_client(Provider)
          /\ req' = [req EXCEPT ![r].pc = "cb_csrf", ![r].session = s,
                                   ![r].code = c, ![r].state = st]
          /\ UNCHANGED <<lockHolder, failedSince>>
       \/ /\ get_authorization_code_client(Provider)
          /\ lockHolder = NoReq
          /\ lockHolder' = r
          /\ UNCHANGED failedSince
          /\ req' = [req EXCEPT ![r].pc = "cb_csrf", ![r].session = s,
                                   ![r].code = c, ![r].state = st]
    /\ UNCHANGED <<registry, protected_url, okExchanges, CSRF_TOKEN,
                   lastIssued, nextToken,
                   usedCodes, users, oauth2_sessions>>

\* lines 162-181: the handler runs with the session s of the visitor and the
\* query parameters ?code=c&state=st and obtains the client; Err is mapped to
\* InternalServerError.
google_callback(r, s, c, st) ==
    /\ req[r].pc = "cb_get_client"
    /\ \/ /\ ~get_authorization_code_client(Provider)
          /\ Return(r, Error_InternalServerError, "registry", {})
       \/ /\ get_authorization_code_client(Provider)
          /\ lockHolder = NoReq
          /\ lockHolder' = r
          /\ UNCHANGED failedSince
          /\ req' = [req EXCEPT ![r].pc = "cb_csrf", ![r].session = s,
                                   ![r].code = c, ![r].state = st]
    /\ UNCHANGED <<registry, protected_url, okExchanges, CSRF_TOKEN,
                   lastIssued, nextToken,
                   usedCodes, users, oauth2_sessions>>

\* callback that takes the CSRF token out of the session when it reads it
callback_csrf_Takes(r) ==
    /\ req[r].pc = "cb_csrf"
    /\ LET csrf_token == CSRF_TOKEN[req[r].session]
       IN IF csrf_token = NoToken
          THEN /\ ReturnCsrf(r, Error_BadRequest("CSRF token not found"), "missing",
                             {"csrf_read"})
               /\ UNCHANGED CSRF_TOKEN
          ELSE /\ req' = [req EXCEPT ![r].pc = "cb_verify", ![r].csrf_token = csrf_token,
                                     ![r].did = @ \cup {"csrf_read"}]
               /\ CSRF_TOKEN' = [CSRF_TOKEN EXCEPT ![req[r].session] = NoToken]
               /\ UNCHANGED <<lockHolder, failedSince>>
    /\ UNCHANGED <<registry, protected_url, okExchanges,
                   lastIssued, nextToken,
                   usedCodes, users, oauth2_sessions>>

\* callback that reports a missing CSRF token as InternalServerError
callback_csrf_Missing500(r) ==
    /\ req[r].pc = "cb_csrf"
    /\ LET csrf_token == CSRF_TOKEN[req[r].session]
       IN IF csrf_token = NoToken
          THEN ReturnCsrf(r, Error_InternalServerError, "missing", {"csrf_read"})
          ELSE /\ req' = [req EXCEPT ![r].pc = "cb_verify", ![r].csrf_token = csrf_token,
                                     ![r].did = @ \cup {"csrf_read"}]
               /\ UNCHANGED <<lockHolder, failedSince>>
    /\ UNCHANGED <<registry, protected_url, okExchanges, CSRF_TOKEN,
                   lastIssued, nextToken,
                   usedCodes, users, oauth2_sessions>>

\* lines 74-76: read the CSRF token of the session; None is a BadRequest.
callback_csrf(r) ==
    /\ req[r].pc = "cb_csrf"
    /\ LET csrf_token == CSRF_TOKEN[req[r].session]
       IN IF csrf_token = NoToken
          THEN ReturnCsrf(r, Error_BadRequest("CSRF token not found"), "missing",
                          {"csrf_read"})
          ELSE /\ req' = [req EXCEPT ![r].pc = "cb_verify", ![r].csrf_token = csrf_token,
                                     ![r].did = @ \cup {"csrf_read"}]
               /\ UNCHANGED <<lockHolder, failedSince>>
    /\ UNCHANGED <<registry, protected_url, okExchanges, CSRF_TOKEN,
                   lastIssued, nextToken,
                   usedCodes, users, oauth2_sessions>>

\* lines 78-79: call verify_code_from_callback(code, state, csrf_token); a state
\* that differs from csrf_token is an Err before any request is sent (mapped to
\* BadRequest at line 81), otherwise the task suspends on the token endpoint.
callback_verify(r) ==
    /\ req[r].pc = "cb_verify"
    /\ IF verify_state(req[r].state, req[r].csrf_token)
       THEN /\ req' = [req EXCEPT ![r].pc = "cb_exchange", ![r].csrf = "passed",
                                  ![r].exchanges = @ + 1,
                                  ![r].did = @ \cup {"exchange"}]
            /\ UNCHANGED <<lockHolder, failedSince>>
       ELSE ReturnCsrf(r, Error_BadRequest("CsrfMismatch"), "mismatch", {})
    /\ UNCHANGED <<registry, protected_url, okExchanges, CSRF_TOKEN,
                   lastIssued, nextToken,
                   usedCodes, users, oauth2_sessions>>

\* callback that goes on with the token when the provider rejected the code
callback_exchange_IgnoresErr(r, result) ==
    /\ req[r].pc = "cb_exchange"
    /\ result \in {"Ok", "ProfileFetch"} => ProviderAccepts(req[r].code)
    /\ usedCodes' = IF result \in {"Ok", "ProfileFetch"}
                    THEN usedCodes \cup {req[r].code} ELSE usedCodes
    /\ IF result \in {"Ok", "InvalidGrant"}
       THEN /\ req' = [req EXCEPT ![r].pc = "cb_text", ![r].token = req[r].code,
                                  ![r].did = @ \cup {"profile_fetch"}]
            /\ okExchanges' = [okExchanges EXCEPT ![req[r].code] = @ + 1]
            /\ UNCHANGED <<lockHolder, failedSince>>
       ELSE /\ Return(r, Error_BadRequest(result), result,
                      IF result = "ProfileFetch" THEN {"profile_fetch"} ELSE {})
            /\ UNCHANGED okExchanges
    /\ UNCHANGED <<registry, protected_url, CSRF_TOKEN, lastIssued, nextToken,
                   users, oauth2_sessions>>

\* callback that calls the exchange again after a transport failure
callback_exchange_Retries(r, result) ==
    /\ req[r].pc = "cb_exchange"
    /\ result \in {"Ok", "ProfileFetch"} => ProviderAccepts(req[r].code)
    /\ usedCodes' = IF result \in {"Ok", "ProfileFetch"}
                    THEN usedCodes \cup {req[r].code} ELSE usedCodes
    /\ IF result = "Ok"
       THEN /\ req' = [req EXCEPT ![r].pc = "cb_text", ![r].token = req[r].code,
                                  ![r].did = @ \cup {"profile_fetch"}]
            /\ okExchanges' = [okExchanges EXCEPT ![req[r].code] = @ + 1]
            /\ UNCHANGED <<lockHolder, failedSince>>
       ELSE IF result = "Network"
       THEN /\ req' = [req EXCEPT ![r].exchanges = @ + 1]
            /\ UNCHANGED <<okExchanges, lockHolder, failedSince>>
       ELSE /\ Return(r, Error_BadRequest(result), result,
                      IF result = "ProfileFetch" THEN {"profile_fetch"} ELSE {})
            /\ UNCHANGED okExchanges
    /\ UNCHANGED <<registry, protected_url, CSRF_TOKEN, lastIssued, nextToken,
                   users, oauth2_sessions>>

\* lines 80-81: the awaited exchange returns; every Err is mapped to BadRequest.
callback_exchange(r, result) ==
    /\ req[r].pc = "cb_exchange"
    /\ result \in {"Ok", "ProfileFetch"} => ProviderAccepts(req[r].code)
    /\ usedCodes' = IF result \in {"Ok", "ProfileFetch"}
                    THEN usedCodes \cup {req[r].code} ELSE usedCodes
    /\ IF result = "Ok"
       THEN /\ req' = [req EXCEPT ![r].pc = "cb_text", ![r].token = req[r].code,
                                  ![r].did = @ \cup {"profile_fetch"}]
            /\ okExchanges' = [okExchanges EXCEPT ![req[r].code] = @ + 1]
            /\ UNCHANGED <<lockHolder, failedSince>>
       ELSE /\ Return(r, Error_BadRequest(result), result,
                      IF result = "ProfileFetch" THEN {"profile_fetch"} ELSE {})
            /\ UNCHANGED okExchanges
    /\ UNCHANGED <<registry, protected_url, CSRF_TOKEN, lastIssued, nextToken,
                   users, oauth2_sessions>>

\* line 83: profile.text().await.unwrap()
callback_profile_text(r, ok) ==
    /\ req[r].pc = "cb_text"
    /\ IF ok
       THEN /\ req' = [req EXCEPT ![r].pc = "cb_json", ![r].did = @ \cup {"profile_text"}]
            /\ UNCHANGED <<lockHolder, failedSince>>
       ELSE Return(r, Panicked, "profile_read", {"profile_text"})
    /\ UNCHANGED <<registry, protected_url, okExchanges, CSRF_TOKEN,
                   lastIssued, nextToken,
                   usedCodes, users, oauth2_sessions>>

\* callback that goes from the decoded profile straight to the session upsert
callback_deserialize_SkipsUser(r, ok) ==
    /\ req[r].pc = "cb_json"
    /\ IF ok
       THEN /\ req' = [req EXCEPT ![r].pc = "cb_session", ![r].did = @ \cup {"deserialize"}]
            /\ UNCHANGED <<lockHolder, failedSince>>
       ELSE Return(r, Panicked, "deserialize", {"deserialize"})
    /\ UNCHANGED <<registry, protected_url, okExchanges, CSRF_TOKEN,
                   lastIssued, nextToken,
                   usedCodes, users, oauth2_sessions>>

\* line 86: serde_json::from_str(&body).unwrap()
callback_deserialize(r, ok) ==
    /\ req[r].pc = "cb_json"
    /\ IF ok
       THEN /\ req' = [req EXCEPT ![r].pc = "cb_user", ![r].did = @ \cup {"deserialize"}]
            /\ UNCHANGED <<lockHolder, failedSince>>
       ELSE Return(r, Panicked, "deserialize", {"deserialize"})
    /\ UNCHANGED <<registry, protected_url, okExchanges, CSRF_TOKEN,
                   lastIssued, nextToken,
                   usedCodes, users, oauth2_sessions>>

\* lines 88-93: U::upsert_with_oauth(&ctx.db, &profile); Err -> InternalServerError
callback_upsert_user(r, ok) ==
    /\ req[r].pc = "cb_user"
    /\ IF ok
       THEN /\ users' = users \cup {Identity(req[r].token)}
            /\ req' = [req EXCEPT ![r].pc = "cb_session", ![r].user = Identity(req[r].token),
                                  ![r].did = @ \cup {"upsert_user"}]
            /\ UNCHANGED <<lockHolder, failedSince>>
       ELSE /\ UNCHANGED users
            /\ Return(r, Error_InternalServerError, "upsert_user", {"upsert_user"})
    /\ UNCHANGED <<registry, protected_url, okExchanges, CSRF_TOKEN,
                   lastIssued, nextToken,
                   usedCodes, oauth2_sessions>>

\* callback that reports a failed session upsert as BadRequest
callback_upsert_session_400(r, ok) ==
    /\ req[r].pc = "cb_session"
    /\ IF ok
       THEN /\ oauth2_sessions' = oauth2_sessions \cup {<<req[r].user, req[r].token>>}
            /\ req' = [req EXCEPT ![r].pc = "cb_cookie", ![r].did = @ \cup {"upsert_session"}]
            /\ UNCHANGED <<lockHolder, failedSince>>
       ELSE /\ UNCHANGED oauth2_sessions
            /\ Return(r, Error_BadRequest("session"), "upsert_session", {"upsert_session"})
    /\ UNCHANGED <<registry, protected_url, okExchanges, CSRF_TOKEN,
                   lastIssued, nextToken,
                   usedCodes, users>>

\* lines 94-99: V::upsert_with_oauth2(&ctx.db, &token, &user); Err -> InternalServerError
callback_upsert_session(r, ok) ==
    /\ req[r].pc = "cb_session"
    /\ IF ok
       THEN /\ oauth2_sessions' = oauth2_sessions \cup {<<req[r].user, req[r].token>>}
            /\ req' = [req EXCEPT ![r].pc = "cb_cookie", ![r].did = @ \cup {"upsert_session"}]
            /\ UNCHANGED <<lockHolder, failedSince>>
       ELSE /\ UNCHANGED oauth2_sessions
            /\ Return(r, Error_InternalServerError, "upsert_session", {"upsert_session"})
    /\ UNCHANGED <<registry, protected_url, okExchanges, CSRF_TOKEN,
                   lastIssued, nextToken,
                   usedCodes, users>>

\* lines 100-106: create_short_live_cookie_with_token_response; Err -> InternalServerError
callback_cookie(r, ok) ==
    /\ req[r].pc = "cb_cookie"
    /\ IF ok
       THEN /\ req' = [req EXCEPT ![r].pc = "cb_redirect", ![r].did = @ \cup {"cookie"}]
            /\ UNCHANGED <<lockHolder, failedSince>>
       ELSE Return(r, Error_InternalServerError, "cookie", {"cookie"})
    /\ UNCHANGED <<registry, protected_url, okExchanges, CSRF_TOKEN,
                   lastIssued, nextToken,
                   usedCodes, users, oauth2_sessions>>

\* protect_url without the fallback path
protect_url_NoDefault == protected_url

\* lines 107-110: protected_url.clone().unwrap_or_else(|| "/oauth2/protected")
protect_url == IF protected_url = NoUrl THEN DefaultProtectedUrl ELSE protected_url

\* lines 111-113 and 182-183: the response is the jar with the redirect.
callback_redirect(r) ==
    /\ req[r].pc = "cb_redirect"
    /\ Return(r, Ok_Redirect(protect_url), "none", {"redirect"})
    /\ UNCHANGED <<registry, protected_url, okExchanges, CSRF_TOKEN,
                   lastIssued, nextToken,
                   usedCodes, users, oauth2_sessions>>

\* The .await points of the handlers: the lock of the client (lines 134, 177,
\* pending only while another request owns the guard), the exchange (line 80),
\* the body read (line 83) and the two upserts (lines 89, 95).
Suspended(r) ==
    \/ /\ req[r].pc \in {"auth_get_client", "cb_get_client"}
       /\ get_authorization_code_client(Provider)
       /\ lockHolder # NoReq
    \/ req[r].pc \in {"cb_exchange", "cb_text", "cb_user", "cb_session"}

\* The request is cancelled (the visitor disconnects, the request times out):
\* the future of the handler is dropped at the .await it is suspended on, its
\* locals with it, before the awaited operation takes effect.
cancel(r) ==
    /\ Suspended(r)
    /\ req' = [req EXCEPT ![r] = [IdleReq EXCEPT !.pc = "done", !.kind = req[r].kind,
                                                 !.csrf = req[r].csrf,
                                                 !.resp = Cancelled,
                                                 !.failedAt = "cancelled"]]
    /\ lockHolder' = IF lockHolder = r THEN NoReq ELSE lockHolder
    /\ UNCHANGED failedSince
    /\ UNCHANGED <<registry, protected_url, okExchanges, CSRF_TOKEN,
                   lastIssued, nextToken, usedCodes, users, oauth2_sessions>>

\* Inputs of the handlers.  Sessions that hold no token and no mark are
\* interchangeable, and so are codes the provider has not consumed and state
\* values the client has not generated yet: one of each kind is offered.
SessionChoices ==
    LET touched == {s \in Sessions : CSRF_TOKEN[s] # NoToken \/ failedSince[s]}
        fresh == Sessions \ touched
    IN touched \cup {s \in fresh : \A t \in fresh : s <= t}

CodeChoices ==
    LET fresh == Codes \ usedCodes
    IN usedCodes \cup {c \in fresh : \A d \in fresh : c <= d}

StateChoices == {st \in Tokens : st <= nextToken + 1}

\* One step of the handler of request r.
HandlerStep(r) ==
    \/ \E s \in SessionChoices : google_authorization_url(r, s)
    \/ get_authorization_url(r)
    \/ \E s \in SessionChoices, c \in CodeChoices, st \in StateChoices :
          google_callback(r, s, c, st)
    \/ callback_csrf(r)
    \/ callback_verify(r)
    \/ \E result \in ExchangeResults : callback_exchange(r, result)
    \/ \E ok \in BOOLEAN : callback_profile_text(r, ok)
    \/ \E ok \in BOOLEAN : callback_deserialize(r, ok)
    \/ \E ok \in BOOLEAN : callback_upsert_user(r, ok)
    \/ \E ok \in BOOLEAN : callback_upsert_session(r, ok)
    \/ \E ok \in BOOLEAN : callback_cookie(r, ok)
    \/ callback_redirect(r)

Next ==
    \/ \E r \in Req : AuthStart(r)
    \/ \E r \in Req : CallbackStart(r)
    \/ \E r \in Req, s \in SessionChoices : google_authorization_url(r, s)
    \/ \E r \in Req : get_authorization_url(r)
    \/ \E r \in Req, s \in SessionChoices, c \in CodeChoices, st \in StateChoices :
          google_callback(r, s, c, st)
    \/ \E r \in Req : callback_csrf(r)
    \/ \E r \in Req : callback_verify(r)
    \/ \E r \in Req, result \in ExchangeResults : callback_exchange(r, result)
    \/ \E r \in Req, ok \in BOOLEAN : callback_profile_text(r, ok)
    \/ \E r \in Req, ok \in BOOLEAN : callback_deserialize(r, ok)
    \/ \E r \in Req, ok \in BOOLEAN : callback_upsert_user(r, ok)
    \/ \E r \in Req, ok \in BOOLEAN : callback_upsert_session(r, ok)
    \/ \E r \in Req, ok \in BOOLEAN : callback_cookie(r, ok)
    \/ \E r \in Req : callback_redirect(r)
    \/ \E r \in Req : cancel(r)

Spec == Init /\ [][Next]_vars

TypeOK ==
    /\ lockHolder \in Req \cup {NoReq}
    /\ \A s \in Sessions : CSRF_TOKEN[s] \in Tokens \cup {NoToken}
    /\ nextToken \in 0..MaxTokens
    /\ usedCodes \subseteq Codes

\* ------------------------------------------------------------------ claims
Callbacks == {r \in Req : req[r].kind = "callback"}

LaterSteps == {"exchange", "profile_fetch", "profile_text", "deserialize",
               "upsert_user", "upsert_session", "cookie", "redirect"}

\* C1: a callback on session s passes CSRF verification exactly when a state
\* has been issued to s by an authorize-initiation and the supplied state
\* equals the one issued most recently; with nothing issued it never passes.
C1_PassesIffLastIssued ==
    [][\A r \in Req :
          (req[r].csrf = "pending" /\ req'[r].csrf # "pending")
          => (req'[r].csrf = "passed"
              <=> /\ lastIssued[req[r].session] # NoToken
                  /\ req[r].state = lastIssued[req[r].session])]_vars

\* one callback is past the check with the state last issued to its session, another was refused
C1_Witness ==
    \E r, q \in Callbacks :
        /\ req[r].csrf = "passed" /\ req[r].pc = "cb_exchange"
        /\ req[r].state = lastIssued[req[r].session]
        /\ req[q].csrf \in {"mismatch", "missing"}

\* C2: once a callback on session s has passed CSRF verification the token
\* bound to s is cleared for the rest of that invocation (single use).
C2_TokenClearedAfterPass ==
    \A r \in Callbacks :
        (req[r].csrf = "passed" /\ req[r].pc # "done")
        => CSRF_TOKEN[req[r].session] = NoToken

\* C3: a callback whose CSRF verification fails answers 400 and performs no
\* exchange, profile fetch, upsert or cookie issuance.
C3_CsrfFailureIsClientError ==
    \A r \in Callbacks :
        req[r].csrf \in {"missing", "mismatch"}
        => /\ req[r].pc = "done"
           /\ req[r].resp.kind = "error"
           /\ req[r].resp.status = 400
           /\ ~req[r].resp.cookie
           /\ req[r].did \cap LaterSteps = {}

\* one callback refused for a missing token, one for a mismatching state
C3_Witness ==
    \E r, q \in Callbacks :
        /\ req[r].csrf = "missing" /\ req[r].pc = "done"
        /\ req[q].csrf = "mismatch" /\ req[q].pc = "done"

\* C4: with the provider not configured every request ends in the registry
\* failure without reading or writing the session's CSRF token and without
\* any exchange, upsert or cookie.
C4_UnknownProviderFirst ==
    Provider \notin registry
    => /\ \A s \in Sessions : CSRF_TOKEN[s] = NoToken
       /\ usedCodes = {} /\ users = {} /\ oauth2_sessions = {}
       /\ \A r \in Req :
            /\ req[r].did = {}
            /\ req[r].csrf = "pending"
            /\ req[r].pc \in {"idle", "auth_get_client", "cb_get_client", "done"}
            /\ req[r].pc = "done"
               => /\ req[r].failedAt = "registry"
                  /\ req[r].resp.kind = "error"
                  /\ ~req[r].resp.cookie

\* an authorize-initiation and a callback were both rejected by the registry
C4_Witness ==
    /\ Provider \notin registry
    /\ \E r, q \in Req :
        /\ req[r].kind = "authorize" /\ req[r].failedAt = "registry"
        /\ req[q].kind = "callback" /\ req[q].failedAt = "registry"

\* C5: a failing user upsert or session upsert after a successful exchange
\* ends the callback in a 500 response without cookie.
C5_UpsertFailureIsServerError ==
    \A r \in Callbacks :
        req[r].failedAt \in {"upsert_user", "upsert_session"}
        => /\ req[r].pc = "done"
           /\ "exchange" \in req[r].did
           /\ req[r].resp.kind = "error"
           /\ req[r].resp.status = 500
           /\ ~req[r].resp.cookie
           /\ "cookie" \notin req[r].did

\* the session upsert failed after the user record had been created
C5_Witness ==
    \E r \in Callbacks :
        /\ req[r].failedAt = "upsert_session"
        /\ "upsert_user" \in req[r].did
        /\ users # {}

\* C6: every finished callback either redirects with the cookie or returns an
\* error response without cookie.
C6_RedirectOrErrorResponse ==
    \A r \in Callbacks :
        req[r].pc = "done"
        => \/ req[r].resp.kind = "redirect" /\ req[r].resp.cookie
           \/ req[r].resp.kind = "error" /\ ~req[r].resp.cookie

\* C7: an unreadable or malformed profile payload ends the callback in an
\* error value returned to the caller, with no upsert and no cookie.
C7_BadProfileIsErrorValue ==
    \A r \in Callbacks :
        req[r].failedAt \in {"profile_read", "deserialize"}
        => /\ req[r].resp.kind = "error"
           /\ req[r].did \cap {"upsert_user", "upsert_session", "cookie"} = {}

\* C8: a callback all of whose steps succeeded answers with the credential
\* cookie and a redirect to the configured protected URL, or to
\* "/oauth2/protected" when none is configured.
C8_SuccessRedirects ==
    \A r \in Callbacks :
        (req[r].pc = "done" /\ req[r].csrf = "passed" /\ req[r].failedAt = "none")
        => /\ req[r].resp.kind = "redirect"
           /\ req[r].resp.cookie
           /\ req[r].resp.location =
                (IF protected_url = NoUrl THEN "/oauth2/protected" ELSE protected_url)
           /\ {"upsert_user", "upsert_session", "cookie"} \subseteq req[r].did

\* a callback went through every step with no protected URL configured
C8_Witness ==
    \E r \in Callbacks :
        /\ req[r].pc = "done" /\ req[r].csrf = "passed" /\ req[r].failedAt = "none"
        /\ "redirect" \in req[r].did
        /\ protected_url = NoUrl

\* C9: an exchange failure is reported by kind: invalid grant as 400, a
\* transport or profile-fetch failure as 502.
C9_ExchangeFailureByKind ==
    \A r \in Callbacks :
        /\ req[r].failedAt = "InvalidGrant" => req[r].resp.status = 400
        /\ req[r].failedAt \in {"Network", "ProfileFetch"} => req[r].resp.status = 502

\* C10: no request holds the client's lock while it is suspended in the code
\* exchange or in any later step of the callback.
C10_NoLockAcrossNetwork ==
    \A r \in Callbacks :
        req[r].pc \in {"cb_exchange", "cb_text", "cb_json", "cb_user", "cb_session",
                       "cb_cookie", "cb_redirect"}
        => lockHolder # r

\* ------------------------------------------------- liveness specification
\* Every network and persistence call returns and no request is cancelled:
\* the steps of the handlers without cancel.
NextLive ==
    \/ \E r \in Req : AuthStart(r)
    \/ \E r \in Req : CallbackStart(r)
    \/ \E r \in Req : HandlerStep(r)

LiveSpec == Init /\ [][NextLive]_vars /\ \A r \in Req : WF_vars(HandlerStep(r))

\* C11: an authorize-initiation on a session replaces the token bound to it by
\* a token never handed out before and touches no other session; a callback
\* whose state is a token handed out earlier than the one now bound to its
\* session does not pass verification.
C11_InitiationOverwrites ==
    [][\A r \in Req :
          /\ (req[r].pc = "auth_url" /\ req'[r].pc = "done" /\ req'[r].resp.kind = "url")
             => /\ CSRF_TOKEN'[req[r].session] > nextToken
                /\ CSRF_TOKEN'[req[r].session] # CSRF_TOKEN[req[r].session]
                /\ \A s \in Sessions \ {req[r].session} : CSRF_TOKEN'[s] = CSRF_TOKEN[s]
          /\ (req[r].pc = "cb_verify" /\ req'[r].pc # "cb_verify"
              /\ req[r].state < CSRF_TOKEN[req[r].session])
             => req'[r].csrf # "passed"]_vars

\* a session was initiated twice and a callback on it carries the first state
C11_Witness ==
    \E r \in Callbacks :
        /\ req[r].pc = "cb_verify"
        /\ req[r].state = 1
        /\ CSRF_TOKEN[req[r].session] = 2
        /\ \A s \in Sessions \ {req[r].session} : CSRF_TOKEN[s] = NoToken

\* C12: for every authorization code at most one callback gets Ok from the
\* exchange of that code.
C12_CodeExchangedOnce ==
    \A c \in Codes : okExchanges[c] <= 1

\* a callback replays a code that an earlier callback has exchanged
C12_Witness ==
    \E r \in Callbacks :
        /\ req[r].pc = "cb_exchange"
        /\ okExchanges[req[r].code] = 1
        /\ \E q \in Callbacks : req[q].pc = "done" /\ "profile_fetch" \in req[q].did

\* C13: one callback invocation calls the code exchange at most once.
C13_NoExchangeRetry ==
    \A r \in Req : req[r].exchanges <= 1

\* a callback whose only exchange failed on the transport has returned
C13_Witness ==
    \E r \in Callbacks :
        /\ req[r].pc = "done" /\ req[r].failedAt = "Network" /\ req[r].exchanges = 1

\* C14: once a callback on session s has failed part of the way (after its CSRF
\* check), no callback on s reaches the redirect before a new
\* authorize-initiation on s.
C14_NoRedirectAfterFailure ==
    [][\A r \in Req :
          (req[r].pc = "cb_redirect" /\ req'[r].pc = "done")
          => ~failedSince[req[r].session]]_vars

\* C15: a step of a callback that has not passed verification (a failed check,
\* a cancellation) leaves every bound token as it is, and a token is cleared
\* only by a step of a callback on that session that passes or has passed.
C15_NoSpeculativeClearing ==
    [][/\ \A r \in Req :
            (req[r].kind = "callback" /\ req[r].csrf = "pending"
             /\ req'[r] # req[r] /\ req'[r].csrf # "passed")
            => CSRF_TOKEN' = CSRF_TOKEN
       /\ \A s \in Sessions :
            (CSRF_TOKEN[s] # NoToken /\ CSRF_TOKEN'[s] = NoToken)
            => \E r \in Req : /\ req[r].kind = "callback" /\ req[r].session = s
                              /\ req'[r] # req[r]
                              /\ "passed" \in {req[r].csrf, req'[r].csrf}]_vars

\* a callback was cancelled before its check, another failed it, a token is bound
C15_Witness ==
    /\ \E s \in Sessions : CSRF_TOKEN[s] # NoToken
    /\ \E r, q \in Callbacks :
        /\ req[r].failedAt = "cancelled" /\ req[r].csrf = "pending"
        /\ req[q].csrf = "mismatch"

\* C16: an unknown-provider failure is answered with a client error (4xx).
C16_UnknownProviderIsClientError ==
    \A r \in Req :
        req[r].failedAt = "registry"
        => req[r].resp.status \in 400..499

\* C17: the steps of a callback run in the order CSRF check, exchange, profile
\* decode, user upsert, session upsert, cookie, redirect; the session upsert is
\* called with the user the user upsert returned and the exchanged token, the
\* cookie is issued after both upserts succeeded.
StepOrder ==
    <<"csrf_read", "exchange", "profile_fetch", "profile_text", "deserialize",
      "upsert_user", "upsert_session", "cookie", "redirect">>

C17_StepsInOrder ==
    \A r \in Callbacks :
        /\ \A i \in 2..Len(StepOrder) :
              StepOrder[i] \in req[r].did => StepOrder[i - 1] \in req[r].did
        /\ "upsert_session" \in req[r].did => req[r].failedAt # "upsert_user"
        /\ "cookie" \in req[r].did => req[r].failedAt \notin {"upsert_user", "upsert_session"}
        /\ req[r].pc = "cb_session"
           => /\ "upsert_user" \in req[r].did
              /\ req[r].token = req[r].code
              /\ req[r].user = Identity(req[r].token)
              /\ req[r].user \in users
        /\ req[r].pc \in {"cb_cookie", "cb_redirect"}
           => /\ {"upsert_user", "upsert_session"} \subseteq req[r].did
              /\ <<req[r].user, req[r].token>> \in oauth2_sessions

\* a callback is about to issue the cookie, its user and session are stored
C17_Witness ==
    \E r \in Callbacks :
        /\ req[r].pc = "cb_cookie"
        /\ <<req[r].user, req[r].token>> \in oauth2_sessions

\* C18: at most one request is between obtaining the client and the return of
\* its handler, and it is the owner of the guard; two exchanges never overlap.
HoldsClient(r) ==
    req[r].pc \in {"auth_url", "cb_csrf", "cb_verify", "cb_exchange", "cb_text",
                   "cb_json", "cb_user", "cb_session", "cb_cookie", "cb_redirect"}

C18_OneHolder ==
    /\ \A r, q \in Req : (HoldsClient(r) /\ HoldsClient(q)) => r = q
    /\ \A r \in Req : HoldsClient(r) <=> lockHolder = r

\* a callback awaits the exchange while another request waits for the client
C18_Witness ==
    \E r, q \in Req :
        /\ req[r].pc = "cb_exchange" /\ lockHolder = r
        /\ req[q].pc \in {"cb_get_client", "auth_get_client"}

\* C19: when no call hangs and no request is cancelled, every handler that has
\* ended has given up the client's lock and has ended with a response: the
\* url, the redirect or an error.
C19_EndsWithResponse ==
    \A r \in Req :
        req[r].pc = "done"
        => /\ lockHolder # r
           /\ req[r].resp.kind \in {"url", "redirect", "error"}

\* C20: an authorize-initiation that returns the url leaves the state of that
\* url bound to its session; one that fails on the client lookup returns an
\* error and changes no bound token.
C20_BoundTokenIsUrlState ==
    [][\A r \in Req :
          (req[r].kind = "authorize" /\ req[r].pc # "done" /\ req'[r].pc = "done")
          => IF req'[r].resp.kind = "url"
             THEN /\ req'[r].resp.url_state # NoToken
                  /\ CSRF_TOKEN'[req[r].session] = req'[r].resp.url_state
             ELSE /\ CSRF_TOKEN' = CSRF_TOKEN
                  /\ req'[r].failedAt = "registry" => req'[r].resp.kind = "error"]_vars

\* two initiations on different sessions returned, each session holds its state
C20_Witness ==
    \E r, q \in Req :
        /\ r # q
        /\ req[r].resp.kind = "url" /\ req[q].resp.kind = "url"
        /\ \E s, t \in Sessions :
              /\ s # t
              /\ CSRF_TOKEN[s] = req[r].resp.url_state
              /\ CSRF_TOKEN[t] = req[q].resp.url_state

====
